---------------------------- MODULE Spec2Model ----------------------------
(***************************************************************************)
(* Lectev: the dependency-resolution and ordering engine.                  *)
(*                                                                         *)
(*   external.rs  Work / WorkGroup / WorkItem / WorkItemOrGroupId          *)
(*   index.rs     sim_to_indexes: work_items_for_group, work_items_by_id   *)
(*   rand_topo.rs resolve_*, flatten_group, index_to_flat_deps,            *)
(*                outgoing_deps_to_incoming_deps, prepare, sort            *)
(*   run.rs       do_command: sim_to_indexes, then prepare, then sort      *)
(*   external.rs  WorkerId / WorkItemId / WorkGroupId / Skill constructors *)
(*   convert_template.rs  template_to_event, transform_deps,               *)
(*                template_to_work_group, templates_to_work                *)
(*                                                                         *)
(* Four specifications share the variables:                                *)
(*   Spec        do_command, sort taken as one step;                       *)
(*   SortSpec    sort taken pass by pass of its loop, on the Prepared      *)
(*               values prepare builds and on every other value of the     *)
(*               type within the bounds, sorted again and again;           *)
(*   SortLive    the passes of one sort after another under weak           *)
(*               fairness of the pass and of the return: a call that has   *)
(*               started keeps running until it returns;                   *)
(*   ImportSpec  the construction of identifiers and the conversion of     *)
(*               template records.                                         *)
(*                                                                         *)
(* A Vec is a sequence, a HashSet a set, a HashMap a function on its key   *)
(* set.  Iterating a HashMap yields its entries in an order the program    *)
(* does not control: every such iteration is a choice over all orders.     *)
(* Identifiers (non-empty strings in the source) are the natural numbers   *)
(* 1..n of the nodes that carry them; 0 is an identifier no node carries.  *)
(* The fields of WorkItem that none of the modelled functions reads        *)
(* (estimates, skills) are left out of the records.                        *)
(***************************************************************************)
EXTENDS Naturals, Sequences, FiniteSets, TLC

\* Bound on a Work Model: number of Work nodes plus number of dependency
\* references in all the `dependencies` vectors together.
MaxSize == 5

\* Bounds on a Prepared value handed to sort directly: number of different
\* item ids, and number of incoming links in all its elements together.
MaxItems == 3
MaxLinks == 3

\* Bound on the number of template records converted in one sequence.
MaxRecords == 2

VARIABLES
    simulation,   \* the Simulation's `work` forest (run.rs: simulation)
    pc,           \* position of do_command in run.rs
    indices,      \* index::Indices built by sim_to_indexes
    prepared,     \* rand_topo::Prepared built by prepare
    result,       \* what rand_topo::sort (templates_to_work, deserialize) returned
    frame,        \* sort's own data while it runs: its `prepared.elements`,
                  \* no_deps, sorted_elements
    templates,    \* templates_to_work: the Vec<Template> handed in
    events,       \* templates_to_work: events
    cache,        \* the dep_cache handed to template_to_work_group
    works,        \* templates_to_work: `result`, the Work converted so far
    raw           \* the string an identifier is deserialized from, and its type

importVars == <<templates, events, cache, works, raw>>
vars == <<simulation, pc, indices, prepared, result, frame, importVars>>

-----------------------------------------------------------------------------
(* Generic helpers for Vec / HashSet / HashMap values *)

Range(s) == {s[i] : i \in DOMAIN s}

\* All orders in which the elements of a finite set can be visited.
Orderings(S) ==
    {f \in [1..Cardinality(S) -> S] : \A i, j \in DOMAIN f : f[i] = f[j] => i = j}

RECURSIVE Concat(_)
Concat(ss) == IF ss = <<>> THEN <<>> ELSE Head(ss) \o Concat(Tail(ss))

RECURSIVE AscendingSeq(_)
AscendingSeq(S) ==
    IF S = {} THEN <<>>
    ELSE LET m == CHOOSE x \in S : \A y \in S : x <= y
         IN  <<m>> \o AscendingSeq(S \ {m})

-----------------------------------------------------------------------------
(* The Work Model (external.rs) and the bounded set of inputs *)

WorkItemOrGroupId(kind, id) == [kind |-> kind, id |-> id]

WorkItem(id, dependencies) ==
    [kind |-> "WorkItem", id |-> id, dependencies |-> dependencies]

WorkGroup(id, children, dependencies) ==
    [kind |-> "WorkGroup", id |-> id, children |-> children,
     dependencies |-> dependencies]

\* A skeleton lists the nodes of a forest in depth-first order; node i names
\* its kind and its parent (0: top level).  Node i carries the identifier i,
\* so identifiers are unique across the forest.
RECURSIVE AncestorsOrSelf(_, _)
AncestorsOrSelf(s, i) ==
    IF i = 0 THEN {0} ELSE {i} \cup AncestorsOrSelf(s, s[i].parent)

OpenGroups(s) ==
    IF s = <<>> THEN {0}
    ELSE {p \in AncestorsOrSelf(s, Len(s)) : p = 0 \/ s[p].kind = "WorkGroup"}

RECURSIVE Skeletons(_)
Skeletons(n) ==
    IF n = 0 THEN {<<>>}
    ELSE UNION { { Append(s, [kind |-> k, parent |-> p]) :
                     k \in {"WorkItem", "WorkGroup"}, p \in OpenGroups(s) } :
                 s \in Skeletons(n - 1) }

\* What a dependency may reference: any item, any group, an item identifier
\* and a group identifier that no node carries.
Targets(s) ==
    {WorkItemOrGroupId(s[i].kind, i) : i \in DOMAIN s}
        \cup {WorkItemOrGroupId("WorkItem", 0), WorkItemOrGroupId("WorkGroup", 0)}

Slots(s) == {<<o, t>> : o \in DOMAIN s, t \in Targets(s)}

SlotRank(sl) ==
    (sl[1] * (2 * MaxSize + 4)) + (2 * sl[2].id)
        + (IF sl[2].kind = "WorkGroup" THEN 1 ELSE 0)

\* The dependency references of a forest, k in all, listed owner by owner;
\* a reference may occur more than once in a vector.
RECURSIVE SlotSeqs(_, _)
SlotSeqs(s, k) ==
    IF k = 0 THEN {<<>>}
    ELSE UNION { { Append(q, sl) :
                     sl \in {x \in Slots(s) :
                               q = <<>> \/ SlotRank(q[Len(q)]) <= SlotRank(x)} } :
                 q \in SlotSeqs(s, k - 1) }

RECURSIVE DepsOf(_, _)
DepsOf(q, owner) ==
    IF q = <<>> THEN <<>>
    ELSE (IF Head(q)[1] = owner THEN <<Head(q)[2]>> ELSE <<>>)
             \o DepsOf(Tail(q), owner)

RECURSIVE WorkOf(_, _, _)
WorkOf(s, q, i) ==
    IF s[i].kind = "WorkItem"
    THEN WorkItem(i, DepsOf(q, i))
    ELSE LET kids == AscendingSeq({c \in DOMAIN s : s[c].parent = i})
         IN  WorkGroup(i, [j \in DOMAIN kids |-> WorkOf(s, q, kids[j])],
                       DepsOf(q, i))

ForestOf(s, q) ==
    LET tops == AscendingSeq({c \in DOMAIN s : s[c].parent = 0})
    IN  [j \in DOMAIN tops |-> WorkOf(s, q, tops[j])]

-----------------------------------------------------------------------------
(* index.rs *)

\* index.entry(&work_group.id).and_modify(push(item)).or_insert_with(vec![item])
PushLeaf(index, group_id, item) ==
    IF group_id \in DOMAIN index
    THEN [index EXCEPT ![group_id] = Append(@, item)]
    ELSE (group_id :> <<item>>) @@ index

\* Faulty variant: the leaves of the nested group are not added to work_group's entry.
MergeLeaves_NestedDropped(index, group_id, leaves, order) ==
    leaves @@ (IF group_id \in DOMAIN index THEN index
               ELSE (group_id :> <<>>) @@ index)

\* The WorkGroup arm: `leaves` is the index of the nested group and `order`
\* the order in which leaves.values() yields its entries.  All of them are
\* appended to the entry of work_group, then the nested index is merged in.
MergeLeaves(index, group_id, leaves, order) ==
    LET these_leaves == Concat([k \in DOMAIN order |-> leaves[order[k]]])
        with_group ==
            IF group_id \in DOMAIN index
            THEN [index EXCEPT ![group_id] = @ \o these_leaves]
            ELSE (group_id :> these_leaves) @@ index
    IN  leaves @@ with_group

RECURSIVE find_work_items_for_a_group(_)
RECURSIVE FindChildren(_, _, _)

\* The loop over work_group.children from child i on, `index` being the map
\* built so far: the set of maps the loop can end with.
FindChildren(work_group, i, index) ==
    IF i > Len(work_group.children) THEN {index}
    ELSE LET child == work_group.children[i]
         IN  IF child.kind = "WorkItem"
             THEN FindChildren(work_group, i + 1,
                               PushLeaf(index, work_group.id, child))
             ELSE UNION { UNION { FindChildren(work_group, i + 1,
                                      MergeLeaves(index, work_group.id, leaves, order)) :
                                  order \in Orderings(DOMAIN leaves) } :
                          leaves \in find_work_items_for_a_group(child) }

find_work_items_for_a_group(work_group) == FindChildren(work_group, 1, <<>>)

\* The loop of build_items_for_group_index from sim.work[i] on.
RECURSIVE BuildGroups(_, _, _)
BuildGroups(work, i, map) ==
    IF i > Len(work) THEN {map}
    ELSE IF work[i].kind = "WorkItem"
         THEN BuildGroups(work, i + 1, map)
         ELSE UNION { BuildGroups(work, i + 1, found @@ map) :
                      found \in find_work_items_for_a_group(work[i]) }

build_items_for_group_index(sim) == BuildGroups(sim, 1, <<>>)

\* Faulty variant: the groups nested in the group are not descended into.
RECURSIVE build_items_by_id_index_prime_Shallow(_, _, _)
build_items_by_id_index_prime_Shallow(group, i, acc) ==
    IF i > Len(group.children) THEN acc
    ELSE LET work == group.children[i]
         IN  build_items_by_id_index_prime_Shallow(group, i + 1,
                 IF work.kind = "WorkItem" THEN (work.id :> work) @@ acc ELSE acc)

\* The loop of build_items_by_id_index_prime from group.children[i] on.
RECURSIVE build_items_by_id_index_prime(_, _, _)
build_items_by_id_index_prime(group, i, acc) ==
    IF i > Len(group.children) THEN acc
    ELSE LET work == group.children[i]
         IN  build_items_by_id_index_prime(group, i + 1,
                 IF work.kind = "WorkItem"
                 THEN (work.id :> work) @@ acc
                 ELSE build_items_by_id_index_prime(work, 1, acc))

RECURSIVE BuildById(_, _, _)
BuildById(work, i, map) ==
    IF i > Len(work) THEN map
    ELSE BuildById(work, i + 1,
             IF work[i].kind = "WorkItem"
             THEN (work[i].id :> work[i]) @@ map
             ELSE build_items_by_id_index_prime(work[i], 1, map))

build_items_by_id_index(sim) == BuildById(sim, 1, <<>>)

\* The Indices values sim_to_indexes can return.
sim_to_indexes(sim) ==
    { [simulation |-> sim,
       work_items_for_group |-> g,
       work_items_by_id |-> build_items_by_id_index(sim)] :
      g \in build_items_for_group_index(sim) }

-----------------------------------------------------------------------------
(* rand_topo.rs: resolution and flattening *)

\* Faulty variant: a group id without an entry is passed on as if it were an item id.
resolve_dependency_ids_AbsentKept(indexes, id) ==
    IF id.kind = "WorkGroup" /\ id.id \in DOMAIN indexes.work_items_for_group
    THEN LET data == indexes.work_items_for_group[id.id]
         IN  [k \in DOMAIN data |-> data[k].id]
    ELSE <<id.id>>

\* Faulty variant: an item id absent from work_items_by_id is dropped.
resolve_dependency_ids_UnknownDropped(indexes, id) ==
    IF id.kind = "WorkGroup"
    THEN IF id.id \in DOMAIN indexes.work_items_for_group
         THEN LET data == indexes.work_items_for_group[id.id]
              IN  [k \in DOMAIN data |-> data[k].id]
         ELSE <<>>
    ELSE IF id.id \in DOMAIN indexes.work_items_by_id THEN <<id.id>> ELSE <<>>

resolve_dependency_ids(indexes, id) ==
    IF id.kind = "WorkGroup"
    THEN IF id.id \in DOMAIN indexes.work_items_for_group
         THEN LET data == indexes.work_items_for_group[id.id]
              IN  [k \in DOMAIN data |-> data[k].id]
         ELSE <<>>
    ELSE <<id.id>>

\* Faulty variant: only the first reference of the vector is resolved.
resolve_all_dependencies_FirstOnly(indexes, ids) ==
    IF ids = <<>> THEN {} ELSE Range(resolve_dependency_ids(indexes, ids[1]))

resolve_all_dependencies(indexes, ids) ==
    UNION {Range(resolve_dependency_ids(indexes, ids[k])) : k \in DOMAIN ids}

WorkItemFlatDeps(work_item_id, dependencies) ==
    [work_item_id |-> work_item_id, dependencies |-> dependencies]

\* Faulty variant: the group's dependencies are not handed to the item.
FlattenItem_OwnOnly(indexes, group_deps, item) ==
    WorkItemFlatDeps(item.id, resolve_all_dependencies(indexes, item.dependencies))

\* The WorkItem arm of flatten_group's loop.
FlattenItem(indexes, group_deps, item) ==
    WorkItemFlatDeps(item.id,
        group_deps \cup resolve_all_dependencies(indexes, item.dependencies))

\* Faulty variant: the set built for one item is not a copy of group_deps,
\* so what an item adds stays in it for the items that follow in the group.
RECURSIVE flatten_group_Accumulating(_, _, _)
flatten_group_Accumulating(indexes, work_group, deps) ==
    LET group_deps == resolve_all_dependencies(indexes, work_group.dependencies)
        Earlier(k) ==
            UNION { resolve_all_dependencies(indexes,
                        work_group.children[j].dependencies) :
                    j \in {i \in 1..(k - 1) :
                              work_group.children[i].kind = "WorkItem"} }
    IN  Concat([k \in DOMAIN work_group.children |->
                  LET work == work_group.children[k]
                  IN  IF work.kind = "WorkGroup"
                      THEN flatten_group_Accumulating(indexes, work, group_deps)
                      ELSE <<FlattenItem(indexes, group_deps \cup Earlier(k), work)>>])

\* Faulty variant: a nested group is passed over instead of descended into.
flatten_group_NestedSkipped(indexes, work_group, deps) ==
    LET group_deps == resolve_all_dependencies(indexes, work_group.dependencies)
    IN  Concat([k \in DOMAIN work_group.children |->
                  LET work == work_group.children[k]
                  IN  IF work.kind = "WorkGroup"
                      THEN <<>>
                      ELSE <<FlattenItem(indexes, group_deps, work)>>])

\* `deps`, the set handed down by the caller, is not read by the function.
RECURSIVE flatten_group(_, _, _)
flatten_group(indexes, work_group, deps) ==
    LET group_deps == resolve_all_dependencies(indexes, work_group.dependencies)
    IN  Concat([k \in DOMAIN work_group.children |->
                  LET work == work_group.children[k]
                  IN  IF work.kind = "WorkGroup"
                      THEN flatten_group(indexes, work, group_deps)
                      ELSE <<FlattenItem(indexes, group_deps, work)>>])

index_to_flat_deps(indexes) ==
    Concat([k \in DOMAIN indexes.simulation |->
              LET work == indexes.simulation[k]
              IN  IF work.kind = "WorkGroup"
                  THEN flatten_group(indexes, work, {})
                  ELSE <<WorkItemFlatDeps(work.id,
                           resolve_all_dependencies(indexes, work.dependencies))>>])

-----------------------------------------------------------------------------
(* rand_topo.rs: prepare *)

WorkItemIncomingLinks(work_item_id, incoming_links) ==
    [work_item_id |-> work_item_id, incoming_links |-> incoming_links]

\* The HashMap `incoming` after the first loop: one key per id that occurs
\* in some item's dependencies, mapped to the items that list it.
IncomingMap(outgoing) ==
    [dep \in UNION {outgoing[k].dependencies : k \in DOMAIN outgoing} |->
        {outgoing[k].work_item_id :
           k \in {j \in DOMAIN outgoing : dep \in outgoing[j].dependencies}}]

\* The second loop walks the HashMap: the vectors it can build.
outgoing_deps_to_incoming_deps(outgoing) ==
    LET incoming == IncomingMap(outgoing)
    IN  { [k \in DOMAIN order |->
             WorkItemIncomingLinks(order[k], incoming[order[k]])] :
          order \in Orderings(DOMAIN incoming) }

prepare(indexes) ==
    { [elements |-> e] :
      e \in outgoing_deps_to_incoming_deps(index_to_flat_deps(indexes)) }

-----------------------------------------------------------------------------
(* rand_topo.rs: sort *)

Ok(value) == [tag |-> "Ok", value |-> value]
Err(error) == [tag |-> "Err", error |-> error]

\* Faulty variant: the closure pushes the id and keeps the element.
find_and_load_no_incoming_ElementKept(items, no_deps) ==
    LET gone == SelectSeq(items, LAMBDA link : link.incoming_links = {})
    IN  [items |-> items,
         no_deps |-> no_deps \o [k \in DOMAIN gone |-> gone[k].work_item_id]]

\* items.retain(...): the links kept, and no_deps after the pushes.
find_and_load_no_incoming(items, no_deps) ==
    LET kept == SelectSeq(items, LAMBDA link : link.incoming_links # {})
        gone == SelectSeq(items, LAMBDA link : link.incoming_links = {})
    IN  [items |-> kept,
         no_deps |-> no_deps \o [k \in DOMAIN gone |-> gone[k].work_item_id]]

\* no_deps.shuffle(&mut rng): every permutation of the vector.
Shuffles(no_deps) ==
    { [k \in DOMAIN no_deps |-> no_deps[p[k]]] : p \in Orderings(DOMAIN no_deps) }

\* Faulty variant: the id popped is pushed back to no_deps after the pass.
SortIteration_HeadRequeued(st, shuffled) ==
    IF shuffled = <<>>
    THEN [st EXCEPT !.failed = "EmptyStack"]
    ELSE LET head == shuffled[Len(shuffled)]
             popped == SubSeq(shuffled, 1, Len(shuffled) - 1)
             unlinked == [k \in DOMAIN st.elements |->
                            WorkItemIncomingLinks(st.elements[k].work_item_id,
                                st.elements[k].incoming_links \ {head})]
             loaded == find_and_load_no_incoming(unlinked, popped)
         IN  [st EXCEPT !.sorted_elements = Append(@, head),
                        !.elements = loaded.items,
                        !.no_deps = Append(loaded.no_deps, head)]

\* Faulty variant: a pass pops a second id after the first and fails with
\* EmptyStack when there is none.
SortIteration_SecondPop(st, shuffled) ==
    IF Len(shuffled) < 2
    THEN [st EXCEPT !.failed = "EmptyStack"]
    ELSE LET head == shuffled[Len(shuffled)]
             popped == SubSeq(shuffled, 1, Len(shuffled) - 1)
             unlinked == [k \in DOMAIN st.elements |->
                            WorkItemIncomingLinks(st.elements[k].work_item_id,
                                st.elements[k].incoming_links \ {head})]
             loaded == find_and_load_no_incoming(unlinked, popped)
         IN  [st EXCEPT !.sorted_elements = Append(@, head),
                        !.elements = loaded.items,
                        !.no_deps = loaded.no_deps]

\* Faulty variant: the id popped is not removed from the links of the
\* elements, only the pop and the push to sorted_elements happen.
SortIteration_LinksKept(st, shuffled) ==
    IF shuffled = <<>>
    THEN [st EXCEPT !.failed = "EmptyStack"]
    ELSE [st EXCEPT !.sorted_elements = Append(@, shuffled[Len(shuffled)]),
                    !.no_deps = SubSeq(shuffled, 1, Len(shuffled) - 1)]

\* One pass of the while loop, `shuffled` being no_deps after the shuffle.
SortIteration(st, shuffled) ==
    IF shuffled = <<>>
    THEN [st EXCEPT !.failed = "EmptyStack"]
    ELSE LET head == shuffled[Len(shuffled)]
             popped == SubSeq(shuffled, 1, Len(shuffled) - 1)
             unlinked == [k \in DOMAIN st.elements |->
                            WorkItemIncomingLinks(st.elements[k].work_item_id,
                                st.elements[k].incoming_links \ {head})]
             loaded == find_and_load_no_incoming(unlinked, popped)
         IN  [st EXCEPT !.sorted_elements = Append(@, head),
                        !.elements = loaded.items,
                        !.no_deps = loaded.no_deps]

\* Faulty variant: the error lists the blocked ids in the order of the vector.
SortFinish_BlockedListed(st) ==
    IF st.failed # "none" THEN Err(st.failed)
    ELSE IF st.elements = <<>> THEN Ok(st.sorted_elements)
    ELSE Err([k \in DOMAIN st.elements |-> st.elements[k].work_item_id])

\* Faulty variant: the check for links left over is missing.
SortFinish_NoCycleCheck(st) ==
    IF st.failed # "none" THEN Err(st.failed) ELSE Ok(st.sorted_elements)

\* The statements after the loop.
SortFinish(st) ==
    IF st.failed # "none" THEN Err(st.failed)
    ELSE IF st.elements = <<>> THEN Ok(st.sorted_elements)
    ELSE Err("CycleDetected")

\* The statements before the loop.
SortStart(p) ==
    LET loaded == find_and_load_no_incoming(p.elements, <<>>)
    IN  [sorted_elements |-> <<>>, elements |-> loaded.items,
         no_deps |-> loaded.no_deps, failed |-> "none"]

RECURSIVE SortLoop(_)
SortLoop(st) ==
    IF st.no_deps = <<>> \/ st.failed # "none" THEN {SortFinish(st)}
    ELSE UNION { SortLoop(SortIteration(st, shuffled)) :
                 shuffled \in Shuffles(st.no_deps) }

\* Every value sort can return for `p`, over all outcomes of the shuffles.
sort(p) == SortLoop(SortStart(p))

-----------------------------------------------------------------------------
(* run.rs: do_command *)

NoValue == [none |-> TRUE]

\* Section 8 of the specification: items A, B, C, B depending on A and C
\* on both A and B.  It is an input whatever MaxSize is.
ScenarioABC ==
    << WorkItem(1, <<>>),
       WorkItem(2, <<WorkItemOrGroupId("WorkItem", 1)>>),
       WorkItem(3, <<WorkItemOrGroupId("WorkItem", 1),
                     WorkItemOrGroupId("WorkItem", 2)>>) >>

Init ==
    /\ \/ \E n \in 0..MaxSize : \E s \in Skeletons(n) :
             \E k \in 0..(MaxSize - n) : \E q \in SlotSeqs(s, k) :
                simulation = ForestOf(s, q)
       \/ simulation = ScenarioABC
    /\ pc = "start"
    /\ indices = NoValue
    /\ prepared = NoValue
    /\ result = NoValue
    /\ frame = NoValue
    /\ templates = NoValue
    /\ events = NoValue
    /\ cache = NoValue
    /\ works = NoValue
    /\ raw = NoValue

\* let indices = index::sim_to_indexes(&simulation);
BuildIndices ==
    /\ pc = "start"
    /\ indices' \in sim_to_indexes(simulation)
    /\ pc' = "indexed"
    /\ UNCHANGED <<simulation, prepared, result, frame, importVars>>

\* let prepared = rand_topo::prepare(&indices);
Prepare ==
    /\ pc = "indexed"
    /\ prepared' \in prepare(indices)
    /\ pc' = "prepared"
    /\ UNCHANGED <<simulation, indices, result, frame, importVars>>

\* rand_topo::sort(prepared)
Sort ==
    /\ pc = "prepared"
    /\ result' \in sort(prepared)
    /\ pc' = "done"
    /\ UNCHANGED <<simulation, indices, prepared, frame, importVars>>

Next == BuildIndices \/ Prepare \/ Sort

Spec == Init /\ [][Next]_vars

-----------------------------------------------------------------------------
(* rand_topo.rs: sort, one pass of its loop at a time *)

RECURSIVE LinkCount(_, _)
LinkCount(links, ids) ==
    IF ids = {} THEN 0
    ELSE LET id == CHOOSE x \in ids : TRUE
         IN  Cardinality(links[id]) + LinkCount(links, ids \ {id})

\* A value of the type Prepared that did not come from prepare: a vector of
\* WorkItemIncomingLinks, no id twice, in any order, with any link sets.
InitPrepared ==
    /\ \E ids \in SUBSET (1..MaxItems) :
          \E links \in {f \in [ids -> SUBSET (1..MaxItems)] :
                            LinkCount(f, ids) <= MaxLinks} :
             \E order \in Orderings(ids) :
                prepared = [elements |->
                              [k \in DOMAIN order |->
                                 WorkItemIncomingLinks(order[k], links[order[k]])]]
    /\ pc = "prepared"
    /\ simulation = NoValue
    /\ indices = NoValue
    /\ result = NoValue
    /\ frame = NoValue
    /\ templates = NoValue
    /\ events = NoValue
    /\ cache = NoValue
    /\ works = NoValue
    /\ raw = NoValue

\* sort(prepared.clone()): the statements before the loop, on sort's own copy.
SortEnter ==
    /\ pc = "prepared"
    /\ frame' = SortStart(prepared)
    /\ pc' = "sorting"
    /\ UNCHANGED <<simulation, indices, prepared, result, importVars>>

\* Faulty variant: sort works on the caller's Prepared, not on a copy of it.
SortPass_InPlace ==
    /\ pc = "sorting"
    /\ frame.no_deps # <<>>
    /\ frame.failed = "none"
    /\ \E shuffled \in Shuffles(frame.no_deps) : frame' = SortIteration(frame, shuffled)
    /\ prepared' = [elements |-> frame'.elements]
    /\ UNCHANGED <<simulation, pc, indices, result, importVars>>

\* One pass of `while !no_deps.is_empty()`.
SortPass ==
    /\ pc = "sorting"
    /\ frame.no_deps # <<>>
    /\ frame.failed = "none"
    /\ \E shuffled \in Shuffles(frame.no_deps) : frame' = SortIteration(frame, shuffled)
    /\ UNCHANGED <<simulation, pc, indices, prepared, result, importVars>>

\* The loop is left (or `?` returned early): sort returns.
SortReturn ==
    /\ pc = "sorting"
    /\ frame.no_deps = <<>> \/ frame.failed # "none"
    /\ result' = SortFinish(frame)
    /\ pc' = "done"
    /\ UNCHANGED <<simulation, indices, prepared, frame, importVars>>

\* The caller asks for another order: it sorts a further clone.
SortAgain ==
    /\ pc = "done"
    /\ frame' = NoValue
    /\ result' = NoValue
    /\ pc' = "prepared"
    /\ UNCHANGED <<simulation, indices, prepared, importVars>>

SortInit == Init \/ InitPrepared

SortNext ==
    BuildIndices \/ Prepare \/ SortEnter \/ SortPass \/ SortReturn \/ SortAgain

SortSpec == SortInit /\ [][SortNext]_vars

\* sort by itself, on any Prepared value.  sort is a sequential function:
\* once entered it goes on, pass after pass, until it returns.
SortRun == SortEnter \/ SortPass \/ SortReturn \/ SortAgain

SortLive ==
    /\ InitPrepared
    /\ [][SortRun]_vars
    /\ WF_vars(SortPass)
    /\ WF_vars(SortReturn)

-----------------------------------------------------------------------------
(* external.rs: the identifier types.  A String is a TLA+ string. *)

WorkerId(value) == [type |-> "WorkerId", value |-> value]
WorkItemId(value) == [type |-> "WorkItemId", value |-> value]
WorkGroupId(value) == [type |-> "WorkGroupId", value |-> value]
Skill(value) == [type |-> "Skill", value |-> value]

\* external::Error: the variant and the `id` it carries.
ExternalError(variant, id) == [kind |-> variant, id |-> id]

WorkerId_new(value) ==
    IF value = "" THEN Err(ExternalError("InstantiateWorkerId", value))
    ELSE Ok(WorkerId(value))

WorkItemId_new(value) ==
    IF value = "" THEN Err(ExternalError("CreateWorkItemId", value))
    ELSE Ok(WorkItemId(value))

WorkGroupId_new(value) ==
    IF value = "" THEN Err(ExternalError("CreateWorkGroupId", value))
    ELSE Ok(WorkGroupId(value))

\* Faulty variant: the string is not looked at.
Skill_new_Unchecked(value) == Ok(Skill(value))

Skill_new(value) ==
    IF value = "" THEN Err(ExternalError("InstantiateSkill", value))
    ELSE Ok(Skill(value))

IdTypes == {"WorkerId", "WorkItemId", "WorkGroupId", "Skill"}

\* T::new for the type named.
New(type, value) ==
    CASE type = "WorkerId" -> WorkerId_new(value)
      [] type = "WorkItemId" -> WorkItemId_new(value)
      [] type = "WorkGroupId" -> WorkGroupId_new(value)
      [] type = "Skill" -> Skill_new(value)

\* impl Deserialize: T::new(v).map_err(D::Error::custom)
deserialize(type, v) ==
    LET made == New(type, v)
    IN  IF made.tag = "Ok" THEN made
        ELSE Err([kind |-> "custom", msg |-> made.error])

-----------------------------------------------------------------------------
(* convert_template.rs.  An Option<String> is a sequence of at most one    *)
(* string: None is <<>>, Some(s) is <<s>>.                                 *)

None == <<>>
Some(s) == <<s>>

Template(id, rung, task, sub_task, skills, dependencies) ==
    [id |-> id, rung |-> rung, task |-> task, sub_task |-> sub_task,
     skills |-> skills, dependencies |-> dependencies]

ProbableWorkGroup(id, description, skills, dependencies) ==
    [event |-> "ProbableWorkGroup", id |-> id, description |-> description,
     skills |-> skills, dependencies |-> dependencies]

ProbableWorkItem(id, description, skills, dependencies) ==
    [event |-> "ProbableWorkItem", id |-> id, description |-> description,
     skills |-> skills, dependencies |-> dependencies]

UnableToResolveDependency(dep) ==
    [kind |-> "UnableToResolveDependency", dep |-> dep]
InvalidWorkGroupId(id, source) ==
    [kind |-> "InvalidWorkGroupId", id |-> id, source |-> source]
InvalidWorkItem(id) == [kind |-> "InvalidWorkItem", id |-> id]

\* Faulty variant: a reference missing from the cache is skipped.
transform_deps_MissingSkipped(deps, dep_cache) ==
    LET found == SelectSeq(deps, LAMBDA dep : dep \in DOMAIN dep_cache)
    IN  Ok([k \in DOMAIN found |-> dep_cache[found[k]]])

\* The iterator stops at the first reference the cache does not hold.
transform_deps(deps, dep_cache) ==
    LET missing == {k \in DOMAIN deps : deps[k] \notin DOMAIN dep_cache}
    IN  IF missing = {}
        THEN Ok([k \in DOMAIN deps |-> dep_cache[deps[k]]])
        ELSE Err(UnableToResolveDependency(
                    deps[CHOOSE k \in missing : \A j \in missing : k <= j]))

\* Faulty variant: dep_cache.insert comes first, before the dependencies
\* are resolved and the id validated.
template_to_work_group_InsertFirst(description, template, dep_cache) ==
    LET registered ==
            (template.id :> WorkItemOrGroupId("WorkGroup", WorkGroupId(template.id)))
                @@ dep_cache
        dependencies == transform_deps(template.dependencies, registered)
        work_group_id == WorkGroupId_new(template.id)
    IN  IF dependencies.tag = "Err"
        THEN [result |-> dependencies, dep_cache |-> registered]
        ELSE IF work_group_id.tag = "Err"
        THEN [result |-> Err(InvalidWorkGroupId(template.id, work_group_id.error)),
              dep_cache |-> registered]
        ELSE [result |-> Ok(WorkGroup(work_group_id.value, <<>>,
                                      dependencies.value)),
              dep_cache |-> registered]

\* What the function returns and what it leaves in dep_cache.  The
\* WorkGroup record has no field for the description.
template_to_work_group(description, template, dep_cache) ==
    LET dependencies == transform_deps(template.dependencies, dep_cache)
        work_group_id == WorkGroupId_new(template.id)
    IN  IF dependencies.tag = "Err"
        THEN [result |-> dependencies, dep_cache |-> dep_cache]
        ELSE IF work_group_id.tag = "Err"
        THEN [result |-> Err(InvalidWorkGroupId(template.id, work_group_id.error)),
              dep_cache |-> dep_cache]
        ELSE [result |-> Ok(WorkGroup(work_group_id.value, <<>>,
                                      dependencies.value)),
              dep_cache |->
                 (template.id :> WorkItemOrGroupId("WorkGroup", work_group_id.value))
                    @@ dep_cache]

\* Section 4.4 of the specification: the source has no conversion of an
\* item record.  It is taken to go the way of a group record, with a
\* WorkItemId.
template_to_work_item(description, template, dep_cache) ==
    LET dependencies == transform_deps(template.dependencies, dep_cache)
        work_item_id == WorkItemId_new(template.id)
    IN  IF dependencies.tag = "Err"
        THEN [result |-> dependencies, dep_cache |-> dep_cache]
        ELSE IF work_item_id.tag = "Err"
        THEN [result |-> Err(work_item_id.error), dep_cache |-> dep_cache]
        ELSE [result |-> Ok(WorkItem(work_item_id.value, dependencies.value)),
              dep_cache |->
                 (template.id :> WorkItemOrGroupId("WorkItem", work_item_id.value))
                    @@ dep_cache]

\* Faulty variant: a record with several levels populated counts as a
\* record of its innermost level.
template_to_event_Innermost(template) ==
    IF template.sub_task # None
    THEN Ok(ProbableWorkItem(template.id, template.sub_task[1],
                             template.skills, template.dependencies))
    ELSE IF template.task # None
    THEN Ok(ProbableWorkGroup(template.id, template.task[1],
                              template.skills, template.dependencies))
    ELSE IF template.rung # None
    THEN Ok(ProbableWorkGroup(template.id, template.rung[1],
                              template.skills, template.dependencies))
    ELSE Err(InvalidWorkItem(template.id))

template_to_event(template) ==
    IF template.rung # None /\ template.task = None /\ template.sub_task = None
    THEN Ok(ProbableWorkGroup(template.id, template.rung[1],
                              template.skills, template.dependencies))
    ELSE IF template.rung = None /\ template.task # None /\ template.sub_task = None
    THEN Ok(ProbableWorkGroup(template.id, template.task[1],
                              template.skills, template.dependencies))
    ELSE IF template.rung = None /\ template.task = None /\ template.sub_task # None
    THEN Ok(ProbableWorkItem(template.id, template.sub_task[1],
                             template.skills, template.dependencies))
    ELSE Err(InvalidWorkItem(template.id))

\* templates.into_iter().map(template_to_event).collect()?
templates_to_events(records) ==
    LET made == [k \in DOMAIN records |-> template_to_event(records[k])]
        bad == {k \in DOMAIN made : made[k].tag = "Err"}
    IN  IF bad = {} THEN Ok([k \in DOMAIN made |-> made[k].value])
        ELSE made[CHOOSE k \in bad : \A j \in bad : k <= j]

-----------------------------------------------------------------------------
(* The inputs of ImportSpec *)

IdTexts == {"", "a", "b"}
Texts == {"", " ", "a", "ab"}
Levels == {None, Some("x")}
DepLists == {<<>>, <<"a">>, <<"b">>, <<"a", "b">>}

\* A record by itself: every combination of the three level columns.
LoneRecords ==
    { Template(id, rung, task, sub_task, skills, dependencies) :
        id \in IdTexts, rung \in Levels, task \in Levels, sub_task \in Levels,
        skills \in {<<>>, <<"s">>}, dependencies \in {<<>>, <<"a">>} }

\* The records of a longer sequence: a rung, a task, a sub_task, or a
\* record with no level at all.
ChainRecords ==
    { Template(id, level[1], level[2], level[3], <<>>, dependencies) :
        id \in IdTexts,
        level \in { <<Some("x"), None, None>>, <<None, Some("x"), None>>,
                    <<None, None, Some("x")>>, <<None, None, None>> },
        dependencies \in DepLists }

ImportInit ==
    /\ \/ /\ \/ \E template \in LoneRecords : templates = <<template>>
             \/ \E n \in 0..MaxRecords : templates \in [1..n -> ChainRecords]
          /\ pc = "templates"
          /\ raw = NoValue
       \/ /\ raw \in [type : IdTypes, value : Texts]
          /\ pc = "raw"
          /\ templates = NoValue
    /\ events = NoValue
    /\ cache = <<>>
    /\ works = <<>>
    /\ result = NoValue
    /\ simulation = NoValue
    /\ indices = NoValue
    /\ prepared = NoValue
    /\ frame = NoValue

pipeVars == <<simulation, indices, prepared, frame>>

\* let v = Deserialize::deserialize(deserializer)?; T::new(v).map_err(...)
Deserialize ==
    /\ pc = "raw"
    /\ result' = deserialize(raw.type, raw.value)
    /\ pc' = "deserialized"
    /\ UNCHANGED <<pipeVars, importVars>>

\* let events = templates.into_iter().map(template_to_event).collect()?;
ToEvents ==
    /\ pc = "templates"
    /\ LET made == templates_to_events(templates)
       IN  IF made.tag = "Ok"
           THEN /\ events' = made.value
                /\ pc' = "converting"
                /\ UNCHANGED result
           ELSE /\ result' = made
                /\ pc' = "rejected"
                /\ UNCHANGED events
    /\ UNCHANGED <<pipeVars, templates, cache, works, raw>>

\* Section 4.4 of the specification (the loop of templates_to_work is not
\* written in the source): the records are converted in sequence order,
\* over one dep_cache, and the first error ends the conversion.
\* `made` is what the conversion of the next record gave.
Convert(made) ==
    /\ cache' = made.dep_cache
    /\ IF made.result.tag = "Ok"
       THEN /\ works' = Append(works, made.result.value)
            /\ UNCHANGED <<pc, result>>
       ELSE /\ result' = made.result
            /\ pc' = "imported"
            /\ UNCHANGED works
    /\ UNCHANGED <<pipeVars, templates, events, raw>>

ConvertGroup ==
    /\ pc = "converting"
    /\ Len(works) < Len(events)
    /\ events[Len(works) + 1].event = "ProbableWorkGroup"
    /\ Convert(template_to_work_group(events[Len(works) + 1].description,
                                      templates[Len(works) + 1], cache))

ConvertItem ==
    /\ pc = "converting"
    /\ Len(works) < Len(events)
    /\ events[Len(works) + 1].event = "ProbableWorkItem"
    /\ Convert(template_to_work_item(events[Len(works) + 1].description,
                                     templates[Len(works) + 1], cache))

FinishImport ==
    /\ pc = "converting"
    /\ Len(works) = Len(events)
    /\ result' = Ok(works)
    /\ pc' = "imported"
    /\ UNCHANGED <<pipeVars, importVars>>

ImportNext ==
    Deserialize \/ ToEvents \/ ConvertGroup \/ ConvertItem \/ FinishImport

ImportSpec == ImportInit /\ [][ImportNext]_vars

-----------------------------------------------------------------------------
(* What the properties speak about, read off the Work Model itself *)

RECURSIVE Descendants(_)
Descendants(work) ==
    {work} \cup (IF work.kind = "WorkGroup"
                 THEN UNION {Descendants(work.children[k]) : k \in DOMAIN work.children}
                 ELSE {})

AllWork(forest) == UNION {Descendants(forest[k]) : k \in DOMAIN forest}
Groups(forest) == {w \in AllWork(forest) : w.kind = "WorkGroup"}
Items(forest) == {w \in AllWork(forest) : w.kind = "WorkItem"}
LeafItems(work) == {w \in Descendants(work) : w.kind = "WorkItem"}
LeafIds(work) == {w.id : w \in LeafItems(work)}
LeafIdsOf(forest) == {w.id : w \in Items(forest)}

\* Section 4.2, resolve: an item reference stands for that item, a group
\* reference for every leaf nested under the group (none if there is no
\* such group).
Resolved(forest, ids) ==
    UNION { IF ids[k].kind = "WorkItem" THEN {ids[k].id}
            ELSE UNION {LeafIds(g) : g \in {x \in Groups(forest) : x.id = ids[k].id}} :
            k \in DOMAIN ids }

\* Section 4.2, flatten: a leaf's set is what its own dependencies resolve to
\* together with what the dependencies of every enclosing group resolve to.
RECURSIVE Flattened(_, _, _)
Flattened(forest, work, inherited) ==
    LET mine == inherited \cup Resolved(forest, work.dependencies)
    IN  IF work.kind = "WorkItem"
        THEN {WorkItemFlatDeps(work.id, mine)}
        ELSE UNION {Flattened(forest, work.children[k], mine) :
                    k \in DOMAIN work.children}

FlattenedGraph(forest) == UNION {Flattened(forest, forest[k], {}) : k \in DOMAIN forest}

\* <<a, b>>: a depends on b.
Edges(flat) == UNION { {<<f.work_item_id, d>> : d \in f.dependencies} : f \in flat }

RECURSIVE Acyclic(_, _)
Acyclic(nodes, edges) ==
    IF nodes = {} THEN TRUE
    ELSE LET free == {n \in nodes : \A e \in edges : e[1] = n => e[2] \notin nodes}
         IN  free # {} /\ Acyclic(nodes \ free, edges)

IsDag(flat) ==
    LET edges == Edges(flat)
    IN  Acyclic({e[1] : e \in edges} \cup {e[2] : e \in edges}, edges)

Positions(order, id) == {k \in DOMAIN order : order[k] = id}

Precedes(order, b, a) ==
    \E i \in Positions(order, b) : \E j \in Positions(order, a) : i < j

\* The entries index_to_flat_deps produces for the indices built.
FlatDeps == index_to_flat_deps(indices)
FlatDepsOf(id) == {FlatDeps[k].dependencies : k \in {j \in DOMAIN FlatDeps : FlatDeps[j].work_item_id = id}}

Indexed == pc \in {"indexed", "prepared", "done"}

\* What a caller reads for a group: an absent entry reads as no items.
ItemsForGroup(group_id) ==
    IF group_id \in DOMAIN indices.work_items_for_group
    THEN indices.work_items_for_group[group_id]
    ELSE <<>>

-----------------------------------------------------------------------------
(* The claims *)

\* C1: for a Work Model whose flattened dependency graph is a DAG, sort
\* returns Ok with a sequence in which every leaf work item of the model
\* occurs exactly once.
C1_DagSortedWithEveryLeafOnce ==
    (pc = "done" /\ IsDag(FlattenedGraph(simulation)))
        => /\ result.tag = "Ok"
           /\ \A id \in LeafIdsOf(simulation) :
                 Cardinality(Positions(result.value, id)) = 1

\* C2: whenever sort returns Ok(order), for every edge "A depends on B" of
\* the flattened dependency graph both A and B occur in order, B before A.
\* (Stated for the edges between two different leaf items of the model.)
C2_OkOrderRespectsEveryEdge ==
    (pc = "done" /\ result.tag = "Ok")
        => \A e \in Edges(FlattenedGraph(simulation)) :
              (e[2] \in LeafIdsOf(simulation) /\ e[1] # e[2])
                  => Precedes(result.value, e[2], e[1])

\* C3: for items A, B, C with B depending on A and C on both A and B, sort
\* returns Ok([A, B, C]) on every run.
C3_ScenarioABCSorted ==
    (pc = "done" /\ simulation = ScenarioABC)
        => result.tag = "Ok" /\ result.value = <<1, 2, 3>>

\* An item depends on another one directly (its dependencies name the
\* other), or through a dependency on a group that contains the other (its
\* dependencies name such a group).
DependsOn(a, b) == b.id \in Resolved(simulation, a.dependencies)

MutualPair(a, b) == a.id # b.id /\ DependsOn(a, b) /\ DependsOn(b, a)

\* C4: when two leaf items each depend on the other (directly, or through a
\* dependency on a group that contains the other), sort returns
\* Err(CycleDetected) and never Ok.
C4_MutualDependencyIsCycle ==
    (pc = "done" /\ \E a, b \in Items(simulation) : MutualPair(a, b))
        => result.tag = "Err" /\ result.error = "CycleDetected"

\* Reached: one item depends on the other through a group reference, the
\* other directly, and sort has returned the cycle error.
C4_Witness ==
    /\ pc = "done"
    /\ result.tag = "Err" /\ result.error = "CycleDetected"
    /\ \E a, b \in Items(simulation) :
          /\ MutualPair(a, b)
          /\ \A k \in DOMAIN a.dependencies : a.dependencies[k].kind = "WorkGroup"
          /\ \A k \in DOMAIN b.dependencies : b.dependencies[k].kind = "WorkItem"

\* C5: for every group G and every leaf nested at any depth beneath G, the
\* leaf's flattened dependency set contains every leaf id that G's own
\* dependencies resolve to.  (Stated for the leaves outside of G.)
C5_GroupDepsReachEveryDescendant ==
    Indexed =>
        \A g \in Groups(simulation) : \A w \in LeafItems(g) :
            \A deps \in FlatDepsOf(w.id) :
                (resolve_all_dependencies(indices, g.dependencies)
                     \cap (LeafIdsOf(simulation) \ LeafIds(g))) \subseteq deps

\* A top-level group whose only children are two leaf items, both without
\* dependencies, and which depends on the item z outside of it.
ScenarioGXYZ(g, z) ==
    /\ g.kind = "WorkGroup"
    /\ Len(g.children) = 2
    /\ \A k \in DOMAIN g.children :
          g.children[k].kind = "WorkItem" /\ g.children[k].dependencies = <<>>
    /\ z \notin Range(g.children)
    /\ g.dependencies # <<>>
    /\ Range(g.dependencies) = {WorkItemOrGroupId("WorkItem", z.id)}

\* C6: for a top-level group G whose only children are leaf items X and Y
\* without dependencies, G depending on an outside item Z, flattening yields
\* exactly {Z} for X and exactly {Z} for Y.
C6_GroupDependencyOnBothChildren ==
    Indexed =>
        \A k \in DOMAIN simulation : \A z \in Items(simulation) :
            ScenarioGXYZ(simulation[k], z)
                => \A c \in DOMAIN simulation[k].children :
                      FlatDepsOf(simulation[k].children[c].id) = {{z.id}}

\* Reached: such a group, flattened, and the run gone through.
C6_Witness ==
    /\ pc = "done"
    /\ \E k \in DOMAIN simulation : \E z \in Items(simulation) :
          /\ ScenarioGXYZ(simulation[k], z)
          /\ \A c \in DOMAIN simulation[k].children :
                FlatDepsOf(simulation[k].children[c].id) = {{z.id}}

\* C7: prepare builds a graph with one entry for every leaf work item, and
\* the incoming-link set stored for an item is exactly the item's flattened
\* dependency set.
C7_PreparedHoldsFlatDepsPerLeaf ==
    pc \in {"prepared", "done"} =>
        /\ {prepared.elements[k].work_item_id : k \in DOMAIN prepared.elements}
               = LeafIdsOf(simulation)
        /\ \A k \in DOMAIN prepared.elements :
              FlatDepsOf(prepared.elements[k].work_item_id)
                  = {prepared.elements[k].incoming_links}

\* A group identifier under which the forest holds no leaf item: a group
\* without leaves, or no group at all.
LeaflessGroupIds ==
    {0} \cup {g.id : g \in {x \in Groups(simulation) : LeafItems(x) = {}}}

\* C8: a reference to a group with zero leaf items, or to a group id absent
\* from the index, resolves to nothing and is no error; an absent entry and
\* an empty entry give the same result.
C8_LeaflessGroupResolvesToNothing ==
    Indexed =>
        \A id \in LeaflessGroupIds :
            /\ resolve_dependency_ids(indices, WorkItemOrGroupId("WorkGroup", id)) = <<>>
            /\ resolve_all_dependencies(indices, <<WorkItemOrGroupId("WorkGroup", id)>>) = {}

\* Reached: the index holds an empty entry for one group and no entry for
\* another, an item references both, and the whole run has gone through.
C8_Witness ==
    /\ pc = "done"
    /\ \E w \in Items(simulation) :
          \E i, j \in DOMAIN w.dependencies :
             /\ w.dependencies[i].kind = "WorkGroup"
             /\ w.dependencies[j].kind = "WorkGroup"
             /\ w.dependencies[i].id \in DOMAIN indices.work_items_for_group
             /\ indices.work_items_for_group[w.dependencies[i].id] = <<>>
             /\ w.dependencies[j].id \notin DOMAIN indices.work_items_for_group
             /\ FlatDepsOf(w.id) = {{}}

\* C9: resolve_all_dependencies returns exactly the item id of every item
\* reference and every leaf id nested transitively under the group of every
\* group reference; repeated references and overlapping groups change
\* nothing.
C9_ResolveAllIsItemsAndLeaves ==
    Indexed =>
        \A w \in AllWork(simulation) :
            resolve_all_dependencies(indices, w.dependencies)
                = Resolved(simulation, w.dependencies)

\* Reached: one dependency vector references a group and a group nested in
\* it, with a leaf under both, and it resolves to the leaves of the outer.
C9_Witness ==
    /\ Indexed
    /\ \E w \in AllWork(simulation) : \E g, h \in Groups(simulation) :
          /\ h \in Descendants(g) \ {g}
          /\ LeafItems(h) # {}
          /\ Range(w.dependencies)
                = {WorkItemOrGroupId("WorkGroup", g.id),
                   WorkItemOrGroupId("WorkGroup", h.id)}
          /\ resolve_all_dependencies(indices, w.dependencies) = LeafIds(g)

\* C10: for every group of the forest, at any depth, the items stored for it
\* in work_items_for_group are exactly the leaf items nested transitively
\* beneath it.
C10_GroupIndexIsLeavesBeneath ==
    Indexed =>
        \A g \in Groups(simulation) : Range(ItemsForGroup(g.id)) = LeafItems(g)

\* Reached: a group with a leaf under a nested sub-group, next to a sibling
\* group with a leaf of its own.
C10_Witness ==
    /\ Indexed
    /\ \E g, h, s \in Groups(simulation) :
          /\ h \in Descendants(g) \ {g}
          /\ s \notin Descendants(g) /\ g \notin Descendants(s)
          /\ LeafItems(h) # {} /\ LeafItems(s) # {}
          /\ Range(ItemsForGroup(g.id)) = LeafItems(g)
          /\ Range(ItemsForGroup(s.id)) = LeafItems(s)


\* C11: the keys of work_items_by_id are exactly the ids of the leaf items
\* of the forest, whatever their depth, and each key is mapped to the work
\* item that carries that id.
C11_ByIdIndexIsTheLeafItems ==
    Indexed =>
        /\ DOMAIN indices.work_items_by_id = LeafIdsOf(simulation)
        /\ \A id \in DOMAIN indices.work_items_by_id :
              /\ indices.work_items_by_id[id] \in Items(simulation)
              /\ indices.work_items_by_id[id].id = id

\* An item at top level and an item two groups deep are both indexed.
C11_Witness ==
    /\ Indexed
    /\ \E k \in DOMAIN simulation :
          /\ simulation[k].kind = "WorkItem"
          /\ simulation[k].id \in DOMAIN indices.work_items_by_id
    /\ \E g \in Groups(simulation) : \E h \in Groups(simulation) :
          /\ h \in Range(g.children)
          /\ \E w \in Range(h.children) :
                /\ w.kind = "WorkItem"
                /\ w.id \in DOMAIN indices.work_items_by_id


\* C13: a leaf item whose flattened dependency set contains its own id
\* (declared directly, or because the item or a group enclosing it depends
\* on a group that contains the item) is accepted while the indices and the
\* prepared graph are built, and sort returns Err(CycleDetected) for it.
C13_SelfDependencyIsCycle ==
    (pc = "done" /\ \E f \in FlattenedGraph(simulation) :
                       f.work_item_id \in f.dependencies)
        => result = Err("CycleDetected")


\* C20: the flattened dependency set of a leaf holds no id but those its own
\* dependencies resolve to and those the dependencies of a group enclosing
\* it resolve to (nothing comes from a sibling or from a group it is not
\* nested in), and the set of a top-level item is exactly what its own
\* dependencies resolve to.
C20_FlattenedSetHasNoForeignId ==
    Indexed =>
        /\ \A k \in DOMAIN FlatDeps :
              \E f \in FlattenedGraph(simulation) :
                 /\ f.work_item_id = FlatDeps[k].work_item_id
                 /\ FlatDeps[k].dependencies \subseteq f.dependencies
        /\ \A k \in DOMAIN simulation :
              simulation[k].kind = "WorkItem"
                 => FlatDepsOf(simulation[k].id) =
                       {Resolved(simulation, simulation[k].dependencies)}

\* Two items of one group, the first depending on a top-level item, the
\* second on nothing: the second one's set stays empty.
C20_Witness ==
    /\ Indexed
    /\ \E g \in Groups(simulation) :
          /\ Len(g.children) = 2
          /\ g.children[1].kind = "WorkItem"
          /\ g.children[2].kind = "WorkItem"
          /\ FlatDepsOf(g.children[2].id) = {{}}
          /\ \E k \in DOMAIN simulation :
                /\ simulation[k].kind = "WorkItem"
                /\ FlatDepsOf(g.children[1].id) = {{simulation[k].id}}


\* C18: when sort starts, the Ready pool (no_deps) holds exactly the leaf
\* items whose flattened dependency set is empty, and every other leaf item
\* is in the Blocked working set (the elements kept).  The flattened sets
\* are those index_to_flat_deps computes.
C18_ReadyPoolAtStart ==
    pc = "prepared" =>
        LET st == SortStart(prepared)
            free == {id \in LeafIdsOf(simulation) : FlatDepsOf(id) = {{}}}
        IN  /\ Range(st.no_deps) = free
            /\ {st.elements[k].work_item_id : k \in DOMAIN st.elements}
                  = LeafIdsOf(simulation) \ free


GraphInHand(s) ==
    Range(s.elements)
        \cup {WorkItemIncomingLinks(id, {}) : id \in Range(s.no_deps)}

\* C12: sort changes nothing but the Prepared it was given by value: while
\* a sort runs on a clone, and after it, the caller's Prepared, the Indices
\* and the Work Model are what they were, so that every later sort on a
\* further clone starts from the same incoming-link graph.
C12_SortLeavesTheOriginalAlone ==
    [][ /\ pc \in {"prepared", "sorting", "done"}
           => /\ prepared' = prepared
              /\ indices' = indices
              /\ simulation' = simulation
        /\ (pc = "prepared" /\ pc' = "sorting")
           => GraphInHand(frame') = Range(prepared.elements) ]_vars

\* A sort has emitted two ids from its copy and returned; the original
\* still holds its elements.
C12_Witness ==
    /\ pc = "done"
    /\ result.tag = "Ok"
    /\ Len(result.value) >= 2
    /\ frame.elements = <<>>
    /\ \E e \in Range(prepared.elements) : e.incoming_links # {}

\* C19: every pass of sort's loop emits exactly one Ready item, removes its
\* id from the incoming-link set of every item still Blocked, and moves a
\* Blocked item to Ready in that same pass exactly when its set has become
\* empty; no item is emitted while its incoming-link set is non-empty.
C19_OnePassOfTheLoop ==
    [][ (pc = "sorting" /\ pc' = "sorting") =>
          LET emitted == frame'.sorted_elements
              head == emitted[Len(emitted)]
              Left(e) == e.incoming_links \ {head}
              freed == {e \in Range(frame.elements) : Left(e) = {}}
              kept == Range(frame.elements) \ freed
          IN  /\ Len(emitted) = Len(frame.sorted_elements) + 1
              /\ SubSeq(emitted, 1, Len(emitted) - 1) = frame.sorted_elements
              /\ head \in Range(frame.no_deps)
              /\ \A e \in Range(frame.elements) :
                    e.work_item_id # head /\ e.incoming_links # {}
              /\ Range(frame'.elements) =
                    {WorkItemIncomingLinks(e.work_item_id, Left(e)) : e \in kept}
              /\ Len(frame'.elements) = Cardinality(kept)
              /\ Range(frame'.no_deps) =
                    (Range(frame.no_deps) \ {head})
                       \cup {e.work_item_id : e \in freed}
              /\ Len(frame'.no_deps) =
                    Len(frame.no_deps) - 1 + Cardinality(freed) ]_vars

\* After a pass, an item that was Blocked in the Prepared value is Ready,
\* and another one is still Blocked with one link fewer.
C19_Witness ==
    /\ pc = "sorting"
    /\ frame.sorted_elements # <<>>
    /\ \E e \in Range(prepared.elements) :
          /\ e.incoming_links # {}
          /\ e.work_item_id \in Range(frame.no_deps)
    /\ \E e \in Range(prepared.elements) : \E f \in Range(frame.elements) :
          /\ f.work_item_id = e.work_item_id
          /\ f.incoming_links # e.incoming_links


\* Number of level columns a record populates.
Populated(template) ==
    Len(template.rung) + Len(template.task) + Len(template.sub_task)

Importing == pc \in {"templates", "converting", "rejected", "imported"}

\* C15: template_to_event accepts a record exactly when one of rung, task
\* and sub_task is populated: a rung alone and a task alone give a group
\* event, a sub_task alone gives an item event, and every other combination
\* is rejected with InvalidWorkItem carrying the record's id.
C15_ExactlyOneLevelPopulated ==
    Importing =>
        /\ \A k \in DOMAIN templates :
              LET template == templates[k]
                  made == template_to_event(template)
              IN  /\ (made.tag = "Ok") <=> (Populated(template) = 1)
                  /\ (Populated(template) = 1 /\ template.rung # None)
                        => made.value = ProbableWorkGroup(template.id,
                               template.rung[1], template.skills,
                               template.dependencies)
                  /\ (Populated(template) = 1 /\ template.task # None)
                        => made.value = ProbableWorkGroup(template.id,
                               template.task[1], template.skills,
                               template.dependencies)
                  /\ (Populated(template) = 1 /\ template.sub_task # None)
                        => made.value = ProbableWorkItem(template.id,
                               template.sub_task[1], template.skills,
                               template.dependencies)
                  /\ Populated(template) # 1
                        => made = Err(InvalidWorkItem(template.id))
        /\ pc = "rejected"
              => \E k \in DOMAIN templates :
                    /\ Populated(templates[k]) # 1
                    /\ result = Err(InvalidWorkItem(templates[k].id))
        /\ pc \in {"converting", "imported"}
              => /\ Len(events) = Len(templates)
                 /\ \A k \in DOMAIN templates :
                       /\ Populated(templates[k]) = 1
                       /\ (events[k].event = "ProbableWorkItem")
                             <=> (templates[k].sub_task # None)

\* A record with a rung and a sub_task has been rejected.
C15_Witness ==
    /\ pc = "rejected"
    /\ templates[1].rung # None
    /\ templates[1].sub_task # None
    /\ templates[1].task = None
    /\ result = Err(InvalidWorkItem(templates[1].id))

\* The ids of the records before record k of the sequence.
EarlierIds(k) == {templates[j].id : j \in 1..(k - 1)}

\* The positions of the references of record k that name no earlier record.
Unresolved(k) ==
    {i \in DOMAIN templates[k].dependencies :
        templates[k].dependencies[i] \notin EarlierIds(k)}

\* C16: with the records converted in sequence order, a dependency
\* reference is resolved only if its text is the id of a record converted
\* earlier in the sequence; a reference to an id that comes later, or that
\* no record has, ends the conversion with the unresolved-dependency error
\* that names this reference.
C16_ReferencesResolveToEarlierRecords ==
    pc \in {"converting", "imported"} =>
        /\ \A k \in DOMAIN works :
              /\ Unresolved(k) = {}
              /\ Len(works[k].dependencies) = Len(templates[k].dependencies)
              /\ \A i \in DOMAIN works[k].dependencies :
                    works[k].dependencies[i].id.value
                       = templates[k].dependencies[i]
        /\ (pc = "imported" /\ result.tag = "Ok")
              => Len(works) = Len(templates)
        /\ (pc = "imported" /\ result.tag = "Err")
              => LET k == Len(works) + 1
                 IN  IF Unresolved(k) # {}
                     THEN result.error = UnableToResolveDependency(
                              templates[k].dependencies[
                                 CHOOSE i \in Unresolved(k) :
                                    \A j \in Unresolved(k) : i <= j])
                     ELSE result.error.kind # "UnableToResolveDependency"

\* The first record, a group, names the id of the second one and is refused.
C16_Witness ==
    /\ pc = "imported"
    /\ Len(templates) = 2
    /\ works = <<>>
    /\ templates[2].id \in Range(templates[1].dependencies)
    /\ templates[1].id # templates[2].id
    /\ events[1].event = "ProbableWorkGroup"
    /\ result = Err(UnableToResolveDependency(templates[2].id))

\* The empty-identifier error of each identifier type.
EmptyIdError(type) ==
    CASE type = "WorkerId" -> "InstantiateWorkerId"
      [] type = "WorkItemId" -> "CreateWorkItemId"
      [] type = "WorkGroupId" -> "CreateWorkGroupId"
      [] type = "Skill" -> "InstantiateSkill"

\* C17: WorkerId::new, WorkItemId::new, WorkGroupId::new and Skill::new
\* fail, with the empty-identifier error of their type, exactly when the
\* string given is empty, and otherwise return the wrapper holding that
\* string unchanged.
C17_NewFailsExactlyOnEmpty ==
    /\ pc \in {"raw", "deserialized"} =>
          LET made == New(raw.type, raw.value)
          IN  /\ (made.tag = "Err") <=> (raw.value = "")
              /\ made.tag = "Err"
                    => made.error = ExternalError(EmptyIdError(raw.type), raw.value)
              /\ made.tag = "Ok"
                    => /\ made.value.type = raw.type
                       /\ made.value.value = raw.value
              /\ pc = "deserialized"
                    => /\ result.tag = made.tag
                       /\ made.tag = "Ok" => result = made
    /\ pc \in {"converting", "imported"} =>
          \A k \in DOMAIN works :
             /\ templates[k].id # ""
             /\ works[k].id.value = templates[k].id

\* An empty string has been refused as a WorkItemId.
C17_Witness ==
    /\ pc = "deserialized"
    /\ raw = [type |-> "WorkItemId", value |-> ""]
    /\ result.tag = "Err"
    /\ result.error.msg = ExternalError("CreateWorkItemId", "")


\* C21: at every pass of sort each item in the Ready pool can be the one
\* selected next, so that for a Work Model whose flattened graph is a DAG
\* every valid topological order of its leaf items is a possible result of
\* sort.
C21_EveryTopologicalOrderPossible ==
    (pc = "prepared" /\ IsDag(FlattenedGraph(simulation)))
        => \A order \in Orderings(LeafIdsOf(simulation)) :
              (\A e \in Edges(FlattenedGraph(simulation)) :
                  Precedes(order, e[2], e[1]))
                 => Ok(order) \in sort(prepared)


\* C22: sort never fails with EmptyStack, whatever Prepared value it is
\* given: the pop is only reached with a non-empty Ready pool, and the only
\* error sort returns is CycleDetected.
C22_NeverEmptyStack ==
    /\ pc = "sorting" => frame.failed = "none"
    /\ (pc = "done" /\ result.tag = "Err") => result.error = "CycleDetected"

\* A sort that made passes and then returned its error.
C22_Witness ==
    /\ pc = "done"
    /\ result = Err("CycleDetected")
    /\ frame.sorted_elements # <<>>


\* C23: sort terminates for every Prepared value, cyclic or not: a sort
\* that has started returns, and its loop makes at most one pass per element
\* of the Prepared value (each pass emits one id).
C23_SortTerminates ==
    /\ [](pc = "sorting"
            => Len(frame.sorted_elements) <= Len(prepared.elements))
    /\ (pc = "sorting") ~> (pc = "done")

\* A sort of three elements returned after one pass: the two elements left
\* can never become Ready.
C23_Witness ==
    /\ pc = "done"
    /\ Len(prepared.elements) = 3
    /\ Len(frame.sorted_elements) = 1
    /\ Len(frame.elements) = 2
    /\ result.tag = "Err"


\* C24: throughout sort the emitted sequence, the Ready pool and the
\* Blocked working set are pairwise disjoint and their sizes add up to the
\* number of elements of the Prepared value; no id occurs twice in the
\* emitted sequence.
C24_EmittedReadyBlockedPartition ==
    pc \in {"sorting", "done"} =>
        LET emitted == Range(frame.sorted_elements)
            ready == Range(frame.no_deps)
            blocked == {e.work_item_id : e \in Range(frame.elements)}
        IN  /\ emitted \cap ready = {}
            /\ emitted \cap blocked = {}
            /\ ready \cap blocked = {}
            /\ Len(frame.sorted_elements) + Len(frame.no_deps)
                  + Len(frame.elements) = Len(prepared.elements)
            /\ Cardinality(emitted) = Len(frame.sorted_elements)

\* In the middle of a sort: one id emitted, one Ready, one Blocked.
C24_Witness ==
    /\ pc = "sorting"
    /\ Len(frame.sorted_elements) = 1
    /\ Len(frame.no_deps) = 1
    /\ Len(frame.elements) = 1


\* C25: every id in a sequence returned by sort is the id of a leaf work
\* item of the Work Model; dangling ids and group ids never appear.
C25_ReturnedIdsAreLeafIds ==
    (pc = "done" /\ result.tag = "Ok")
        => Range(result.value) \subseteq LeafIdsOf(simulation)

\* A returned sequence that lists at least one id.
C25_NonEmptyReturn ==
    /\ pc = "done" /\ result.tag = "Ok" /\ result.value # <<>>


\* A reference of item kind whose id is the id of no leaf item of the forest.
UnknownItemRef(forest, d) ==
    d.kind = "WorkItem" /\ d.id \notin LeafIdsOf(forest)

\* C26: a leaf item that depends on an item id present nowhere in the Work
\* Model is never silently unblocked: the unknown id stays in the item's
\* flattened dependency set, and sort returns Err(CycleDetected).
C26_UnknownItemIdBlocks ==
    pc = "done" =>
        \A w \in Items(simulation) : \A k \in DOMAIN w.dependencies :
            UnknownItemRef(simulation, w.dependencies[k]) =>
                /\ FlatDepsOf(w.id) # {}
                /\ \A deps \in FlatDepsOf(w.id) : w.dependencies[k].id \in deps
                /\ result = Err("CycleDetected")

\* A lone item whose only dependency is an id nothing in the model carries.
C26_Witness ==
    /\ pc = "done"
    /\ Len(simulation) = 1
    /\ simulation[1].kind = "WorkItem"
    /\ Len(simulation[1].dependencies) = 1
    /\ UnknownItemRef(simulation, simulation[1].dependencies[1])
    /\ simulation[1].dependencies[1].id \notin {w.id : w \in AllWork(simulation)}
    /\ result = Err("CycleDetected")


\* The ids of the leaves under a node in depth-first order: a leaf is
\* itself, a group is its children's leaves, child after child.
RECURSIVE DfsLeafIds(_)
DfsLeafIds(work) ==
    IF work.kind = "WorkItem" THEN <<work.id>>
    ELSE Concat([k \in DOMAIN work.children |-> DfsLeafIds(work.children[k])])

DfsLeafIdsOf(forest) == Concat([k \in DOMAIN forest |-> DfsLeafIds(forest[k])])

\* C27: index_to_flat_deps yields exactly one entry per leaf work item of
\* the forest, at any depth, in the forest's depth-first order, and no entry
\* for a group.
C27_OneEntryPerLeafDepthFirst ==
    Indexed =>
        /\ [k \in DOMAIN FlatDeps |-> FlatDeps[k].work_item_id]
              = DfsLeafIdsOf(simulation)
        /\ Len(FlatDeps) = Cardinality(Items(simulation))
        /\ \A k \in DOMAIN FlatDeps :
              FlatDeps[k].work_item_id \notin {g.id : g \in Groups(simulation)}

\* A leaf two groups deep is listed before a top-level item that follows
\* its group.
C27_Witness ==
    /\ Indexed
    /\ Len(simulation) = 2
    /\ simulation[1].kind = "WorkGroup"
    /\ simulation[2].kind = "WorkItem"
    /\ \E c \in DOMAIN simulation[1].children :
          /\ simulation[1].children[c].kind = "WorkGroup"
          /\ \E d \in DOMAIN simulation[1].children[c].children :
                /\ simulation[1].children[c].children[d].kind = "WorkItem"
                /\ \E i, j \in DOMAIN FlatDeps :
                      /\ i < j
                      /\ FlatDeps[i].work_item_id
                            = simulation[1].children[c].children[d].id
                      /\ FlatDeps[j].work_item_id = simulation[2].id


\* C28: in work_items_for_group the collection of a group lists each leaf
\* nested beneath it at most once, also when the leaf lies under two or more
\* levels of nested sub-groups.
C28_EachLeafListedOnce ==
    Indexed =>
        \A g \in Groups(simulation) :
            \A i, j \in DOMAIN ItemsForGroup(g.id) :
                ItemsForGroup(g.id)[i].id = ItemsForGroup(g.id)[j].id => i = j


\* The next record to convert is a group record.
GroupRecordNext ==
    /\ pc = "converting"
    /\ Len(works) < Len(events)
    /\ events[Len(works) + 1].event = "ProbableWorkGroup"

\* C29: converting a group record registers its id in the dependency cache
\* only after its dependency list has been resolved and its id validated.  A
\* group record naming its own id as a dependency (an id no earlier record
\* carries) is rejected as unresolved; when the conversion fails, for an
\* unresolved dependency or an empty id, the cache is left as it was; when
\* it succeeds, the cache gains exactly the record's id.
C29_GroupIdRegisteredLast ==
    [][GroupRecordNext =>
          LET template == templates[Len(works) + 1]
          IN  /\ pc' = "imported" =>
                    /\ cache' = cache
                    /\ result'.tag = "Err"
                    /\ result'.error.kind
                          \in {"UnableToResolveDependency", "InvalidWorkGroupId"}
              /\ pc' = "converting" =>
                    /\ template.id # ""
                    /\ Range(template.dependencies) \subseteq DOMAIN cache
                    /\ cache' = (template.id :>
                                    WorkItemOrGroupId("WorkGroup",
                                                      WorkGroupId(template.id)))
                                   @@ cache
              /\ (/\ template.id \in Range(template.dependencies)
                  /\ template.id \notin DOMAIN cache)
                    => /\ pc' = "imported"
                       /\ result'.error.kind = "UnableToResolveDependency"
              /\ (template.id = "" /\ template.dependencies = <<>>)
                    => /\ pc' = "imported"
                       /\ result'.error.kind = "InvalidWorkGroupId"
    ]_vars

\* After one group was converted, a second group naming its own id was
\* rejected, and the cache still holds the first group's id only.
C29_Witness ==
    /\ pc = "imported"
    /\ Len(templates) = 2
    /\ Len(works) = 1
    /\ events[1].event = "ProbableWorkGroup"
    /\ events[2].event = "ProbableWorkGroup"
    /\ templates[2].id \in Range(templates[2].dependencies)
    /\ templates[2].id # templates[1].id
    /\ result = Err(UnableToResolveDependency(templates[2].id))
    /\ DOMAIN cache = {templates[1].id}

=============================================================================
